---- MODULE Spec2Model ----
(***************************************************************************)
(* Model of bookops_sierra: the SierraToken authenticator                  *)
(* (authorize.py), the Query request executor (query.py) and the           *)
(* SierraSession facade (session.py).                                      *)
(*                                                                         *)
(* The program is single threaded and blocking.  An operation is one       *)
(* action up to the point where it blocks on the transport; the transport's*)
(* answer (a response or an exception) is the input of the action that     *)
(* resumes it.  The clock may advance while an operation is blocked.       *)
(***************************************************************************)
EXTENDS Integers, Sequences, FiniteSets, TLC

\* ---------------------------------------------------------------- bounds
MaxTime == 2            \* the clock runs over 0..MaxTime (seconds)
MaxExpiresIn == 1       \* the server declares lifetimes in 0..MaxExpiresIn

\* The SierraSession objects that share the SierraToken.
Sessions == {"s1"}
NoSession == "none"

\* ------------------------------------------------------------ value sets
None == "None"                         \* Python None / JSON null
Tokens == {"tokA", "tokB"}             \* access token strings the server issues

\* Exception classes the transport can raise, with their Python ancestry.
TransportExceptions ==
    {"Timeout", "ConnectTimeout", "ConnectionError", "Exception"}

Ancestors(cls) ==
    CASE cls = "Timeout"            -> {"Timeout", "RequestException", "Exception"}
      [] cls = "ReadTimeout"        -> {"ReadTimeout", "Timeout", "RequestException", "Exception"}
      [] cls = "ConnectionError"    -> {"ConnectionError", "RequestException", "Exception"}
      [] cls = "ConnectTimeout"     -> {"ConnectTimeout", "ConnectionError", "Timeout",
                                        "RequestException", "Exception"}
      [] cls = "HTTPError"          -> {"HTTPError", "RequestException", "Exception"}
      [] cls = "JSONDecodeError"    -> {"JSONDecodeError", "RequestException", "Exception"}
      [] cls = "BookopsSierraError" -> {"BookopsSierraError", "Exception"}
      [] cls = "KeyError"           -> {"KeyError", "Exception"}
      [] cls = "TypeError"          -> {"TypeError", "Exception"}
      [] cls = "UnicodeDecodeError" -> {"UnicodeDecodeError", "Exception"}
      [] OTHER                      -> {"Exception"}

\* isinstance(exc, one of classes): what an `except (A, B):` clause tests.
Catches(classes, cls) == Ancestors(cls) \cap classes # {}

\* A try statement's except clauses are tried in source order; the result is
\* the index of the first clause that catches cls, 0 when none does.
FirstHandler(clauses, cls) ==
    IF \E i \in 1..Len(clauses) : Catches(clauses[i], cls)
    THEN CHOOSE i \in 1..Len(clauses) :
            /\ Catches(clauses[i], cls)
            /\ \A j \in 1..(i - 1) : ~Catches(clauses[j], cls)
    ELSE 0

\* ------------------------------------------------- token endpoint answers
\* What requests.post gives _get_token: an exception, or a response with a
\* status code and a body.  json: "dict" (a JSON object), "nondict" (valid
\* JSON that is no object), "invalid" (response.json() raises).
\* expires_in_kind: "absent", "nonnumeric" (a string / null), "number".
PostAnswer(exc, status, json, has_tok, tok, ekind, e) ==
    [exc |-> exc, status_code |-> status, json |-> json,
     has_access_token |-> has_tok, access_token |-> tok,
     expires_in_kind |-> ekind, expires_in |-> e]

NoResponse == PostAnswer("none", 0, "invalid", FALSE, None, "absent", 0)

PostRaises == {PostAnswer(x, 0, "invalid", FALSE, None, "absent", 0) :
                  x \in TransportExceptions}

\* Bodies that are no JSON object, and a refusal with a JSON object.
PostBadBody ==
    {PostAnswer("none", 200, "nondict", FALSE, None, "absent", 0),
     PostAnswer("none", 200, "invalid", FALSE, None, "absent", 0),
     PostAnswer("none", 400, "invalid", FALSE, None, "absent", 0),
     PostAnswer("none", 400, "dict", FALSE, None, "absent", 0)}

\* 200 with a JSON object: both fields, access_token missing, expires_in
\* missing or not a number.
PostDicts == {PostAnswer("none", 200, "dict", TRUE, t, "number", e) :
                  t \in Tokens \cup {None}, e \in 0..MaxExpiresIn}
        \cup {PostAnswer("none", 200, "dict", FALSE, None, "number", 0)}
        \cup {PostAnswer("none", 200, "dict", TRUE, t, k, 0) :
                  t \in Tokens, k \in {"absent", "nonnumeric"}}

PostAnswers == PostRaises \cup PostBadBody \cup PostDicts

\* ------------------------------------------------------ errors and results
Msg(text, names, phrase, body) ==
    [text |-> text, names |-> names, phrase |-> phrase, body |-> body]

NoMsg == Msg("", "", "", "")

\* The outcome of an operation as its caller sees it.
\* value is the value returned when it is no response ("True", "False").
Result(kind, exc, msg, status, value) ==
    [kind |-> kind, exc |-> exc, msg |-> msg, status_code |-> status,
     value |-> value]

NoResult == Result("none", "", NoMsg, 0, "")
Returned(status) == Result("return", "", NoMsg, status, "")
ReturnedValue(v) == Result("return", "", NoMsg, 0, v)
Raised(exc, msg) == Result("raise", exc, msg, 0, "")

\* ------------------------------------------------------------ SierraToken
\* expires_on before the first exchange (Python None); below every instant
\* an exchange can store (the least is 0 + 0 - 1).
NoneTime == (0 - 2) - MaxExpiresIn

\* An exception in flight: its class and, for BookopsSierraError, its message.
Exc(cls, msg) == [cls |-> cls, msg |-> msg]
NoExc == Exc("none", NoMsg)

\* SierraToken.__init__'s argument check: all([client_id, client_secret,
\* host_url, api_version]); an argument is "" (empty), None or a value.
ArgValues == {"", None, "value"}
Truthy(a) == a # "" /\ a # None
\* (variant: api_version, which has a default, is left out of the check)
MissingArgument_NoVersion(client_id, client_secret, host_url, api_version) ==
    ~(Truthy(client_id) /\ Truthy(client_secret) /\ Truthy(host_url))

MissingArgument(client_id, client_secret, host_url, api_version) ==
    ~(Truthy(client_id) /\ Truthy(client_secret) /\ Truthy(host_url)
        /\ Truthy(api_version))

\* _parse_access_token_string(response.json()): server_response["access_token"]
\* raises TypeError on a non-object, KeyError on a missing key; both become
\* BookopsSierraError.  The value found is returned whatever it is.
ParseAccessTokenString(resp) ==
    IF resp.json = "dict" /\ resp.has_access_token
    THEN [exc |-> NoExc, value |-> resp.access_token]
    ELSE [exc |-> Exc("BookopsSierraError",
                      Msg("Missing access_token parameter", "", "", "")),
          value |-> None]

\* (variant: the one second margin is forgotten)
CalculateExpirationTime_NoMargin(resp, t) ==
    IF resp.json = "dict" /\ resp.expires_in_kind = "number"
    THEN [exc |-> NoExc, value |-> t + resp.expires_in]
    ELSE [exc |-> Exc("BookopsSierraError",
                      Msg("Missing expires_in parameter", "", "", "")),
          value |-> NoneTime]

\* _calculate_expiration_time(response.json()) at instant t:
\* now + timedelta(seconds=server_response["expires_in"] - 1).
CalculateExpirationTime(resp, t) ==
    IF resp.json = "dict" /\ resp.expires_in_kind = "number"
    THEN [exc |-> NoExc, value |-> t + (resp.expires_in - 1)]
    ELSE [exc |-> Exc("BookopsSierraError",
                      Msg("Missing expires_in parameter", "", "", "")),
          value |-> NoneTime]

\* The except clauses of _get_token, in source order.
GetTokenHandlers ==
    << {"Timeout", "ConnectionError"}, {"BookopsSierraError"}, {"Exception"} >>

\* What _get_token raises for an exception e escaping its try body.
GetTokenClassify(e) ==
    LET h == FirstHandler(GetTokenHandlers, e.cls) IN
    CASE h = 1 -> Exc("BookopsSierraError", Msg("Trouble connecting", e.cls, "", ""))
      [] h = 2 -> e
      [] OTHER -> Exc("BookopsSierraError",
                      Msg("Unexpected error occured", e.cls, "", ""))

\* The try body of _get_token on the SierraToken state self, given the
\* transport's answer resp, evaluated at instant t.  Assignments made before
\* an exception is raised stay made.
GetTokenBody(self, resp, t) ==
    IF resp.exc # "none"
    THEN [self |-> self, exc |-> Exc(resp.exc, NoMsg)]
    ELSE IF resp.status_code = 200
    THEN LET s1 == [self EXCEPT !.server_response = resp] IN
         IF resp.json = "invalid"
         THEN [self |-> s1, exc |-> Exc("JSONDecodeError", NoMsg)]
         ELSE LET tok == ParseAccessTokenString(resp) IN
              IF tok.exc # NoExc
              THEN [self |-> s1, exc |-> tok.exc]
              ELSE LET s2 == [s1 EXCEPT !.token_str = tok.value]
                       exp == CalculateExpirationTime(resp, t) IN
                   IF exp.exc # NoExc
                   THEN [self |-> s2, exc |-> exp.exc]
                   ELSE [self |-> [s2 EXCEPT !.expires_on = exp.value],
                         exc |-> NoExc]
    ELSE IF resp.json = "invalid"
         THEN [self |-> self, exc |-> Exc("JSONDecodeError", NoMsg)]
         ELSE [self |-> self,
               exc |-> Exc("BookopsSierraError",
                           Msg("Invalid request. Oauth server returned error",
                               "", "", "body"))]

\* SierraToken._get_token: the new state and the exception raised, if any.
GetToken(self, resp, t) ==
    LET r == GetTokenBody(self, resp, t) IN
    [self |-> r.self,
     exc |-> IF r.exc = NoExc THEN NoExc ELSE GetTokenClassify(r.exc)]

\* (variant: the comparison is not strict)
IsExpired_NotStrict(exp, t) == exp <= t

\* SierraToken.is_expired() at instant t: expires_on < now.
IsExpired(exp, t) == exp < t

\* ------------------------------------------------------ SierraSession, Query
\* The Authorization header: f"Bearer {token_str}".
Bearer(tok) == [scheme |-> "Bearer", token |-> tok]
NoHeader == [scheme |-> "none", token |-> None]

\* SierraSession._update_authorization: the header derived from the token.
UpdateAuthorization(tok) == Bearer(tok)

\* requests.Session.prepare_request as the resource operations use it: the
\* session's headers at that moment are merged into the request, which is
\* immutable from then on.
PrepareRequest(session_header) == [prepared |-> TRUE, Authorization |-> session_header]

\* A requests.Request that was never prepared.
UnpreparedRequest == [prepared |-> FALSE, Authorization |-> NoHeader]
NoRequest == UnpreparedRequest

\* The session's resource operations that drive a Query.
ResourceOps ==
    {"bib_get", "bib_get_marc", "bib_update", "item_get", "item_update", "items_get"}

\* What session.send gives Query: an exception, or a response with a status
\* code and a body (bytes that are valid UTF-8 or not).
Statuses == {200, 304, 404, 500}
Contents == {[utf8 |-> TRUE, text |-> "spam"], [utf8 |-> FALSE, text |-> "bytes"]}
NoContent == [utf8 |-> TRUE, text |-> ""]
NoSendAnswer == [exc |-> "none", status_code |-> 0, content |-> NoContent]
SendAnswers ==
    {[exc |-> x, status_code |-> 0, content |-> NoContent] : x \in TransportExceptions}
    \cup {a \in [exc : {"none"}, status_code : Statuses, content : Contents] :
             a.content.utf8 \/ a.status_code = 500}

\* Response.raise_for_status: HTTPError for 4xx and 5xx, with these phrases.
HTTPErrorPhrase(status) ==
    IF 400 <= status /\ status < 500 THEN "Client Error"
    ELSE IF 500 <= status /\ status < 600 THEN "Server Error"
    ELSE ""

RaisesForStatus(status) == HTTPErrorPhrase(status) # ""

\* (variant: the catch-all clause comes first)
QueryHandlers_GenericFirst ==
    << {"Exception"}, {"HTTPError"}, {"Timeout", "ConnectionError"} >>

\* The except clauses of Query.__init__, in source order.
QueryHandlers ==
    << {"HTTPError"}, {"Timeout", "ConnectionError"}, {"Exception"} >>

\* The try statement of Query.__init__ given the transport's answer: the
\* call's result.  The HTTPError handler decodes the body while it builds
\* its message; a decoding failure there leaves the handler as it is.
QuerySend(ans) ==
    LET cls == IF ans.exc # "none" THEN ans.exc
               ELSE IF RaisesForStatus(ans.status_code) THEN "HTTPError"
               ELSE "none"
        h == FirstHandler(QueryHandlers, cls)
    IN  IF cls = "none" THEN Returned(ans.status_code)
        ELSE CASE h = 1 ->
                    IF ans.content.utf8
                    THEN Raised("BookopsSierraError",
                                Msg("Server response", "",
                                    HTTPErrorPhrase(ans.status_code),
                                    ans.content.text))
                    ELSE Raised("UnicodeDecodeError", NoMsg)
               [] h = 2 ->
                    Raised("BookopsSierraError", Msg("Connection Error", cls, "", ""))
               [] OTHER ->
                    Raised("BookopsSierraError",
                           Msg("Unexpected request error", cls, "", ""))

\* (variant: the refresh sits inside the try statement, whose catch-all
\* clause then handles e)
QueryRefreshFailure_InTry(e) ==
    Raised("BookopsSierraError", Msg("Unexpected request error", e.cls, "", ""))

\* What Query.__init__ raises when session._fetch_new_token() raises e: the
\* call sits before the try statement, so e leaves as it is.
QueryRefreshFailure(e) == Raised(e.cls, e.msg)

\* ------------------------------------------------- argument normalization
\* A Python value passed as an argument: its type, its text (a str's
\* characters, an int's str()), and a list's elements.
Py(type, v, items) == [type |-> type, v |-> v, items |-> items]
PyStr(v) == Py("str", v, << >>)
PyInt(v) == Py("int", v, << >>)
PyNone == Py("NoneType", "", << >>)
PyList(items) == Py("list", "", items)

\* Lengths _prep_sierra_number accepts: a record number, and one followed by
\* a check digit.
SidLen == 8
SidLenWithCheck == 9

Whitespace == {" "}
DigitChars == {"0", "1", "2", "3", "4", "5", "6", "7", "8", "9"}

\* str.strip()
RECURSIVE LStrip(_)
LStrip(v) == IF Len(v) > 0 /\ Head(v) \in Whitespace THEN LStrip(Tail(v)) ELSE v

RECURSIVE RStrip(_)
RStrip(v) ==
    IF Len(v) > 0 /\ SubSeq(v, Len(v), Len(v)) \in Whitespace
    THEN RStrip(SubSeq(v, 1, Len(v) - 1))
    ELSE v

Strip(v) == RStrip(LStrip(v))

\* str.lower() on the characters used here
Lower(c) == CASE c = "B" -> "b" [] c = "I" -> "i" [] c = "A" -> "a"
              [] c = "X" -> "x" [] OTHER -> c

\* str.isdigit(): false on the empty string
IsDigit(v) ==
    /\ Len(v) > 0
    /\ \A k \in 1..Len(v) : SubSeq(v, k, k) \in DigitChars

InvalidSierraNumber ==
    Exc("BookopsSierraError", Msg("Invalid Sierra number passed", "", "", ""))

\* (variant: the first character is dropped whatever it is)
PrepSierraNumber_AlwaysStrip(sid) ==
    IF sid.type \notin {"int", "str"}
    THEN [exc |-> InvalidSierraNumber, value |-> ""]
    ELSE LET s0 == IF sid.type = "int" THEN sid.v ELSE Strip(sid.v) IN
         IF Len(s0) = 0
         THEN [exc |-> Exc("IndexError", NoMsg), value |-> ""]
         ELSE LET s1 == Tail(s0) IN
              IF Len(s1) = SidLen
              THEN IF IsDigit(s1)
                   THEN [exc |-> NoExc, value |-> s1]
                   ELSE [exc |-> InvalidSierraNumber, value |-> ""]
              ELSE IF Len(s1) = SidLenWithCheck
              THEN IF IsDigit(SubSeq(s1, 1, SidLen))
                   THEN [exc |-> NoExc, value |-> SubSeq(s1, 1, SidLen)]
                   ELSE [exc |-> InvalidSierraNumber, value |-> ""]
              ELSE [exc |-> InvalidSierraNumber, value |-> ""]

\* SierraSession._prep_sierra_number(sid): the exception raised, if any, and
\* the value returned.  sid.lower()[0] raises IndexError on an empty string.
PrepSierraNumber(sid) ==
    IF sid.type \notin {"int", "str"}
    THEN [exc |-> InvalidSierraNumber, value |-> ""]
    ELSE LET s0 == IF sid.type = "int" THEN sid.v ELSE Strip(sid.v) IN
         IF Len(s0) = 0
         THEN [exc |-> Exc("IndexError", NoMsg), value |-> ""]
         ELSE LET s1 == IF Lower(Head(s0)) \in {"b", "i"} THEN Tail(s0) ELSE s0 IN
              IF Len(s1) = SidLen
              THEN IF IsDigit(s1)
                   THEN [exc |-> NoExc, value |-> s1]
                   ELSE [exc |-> InvalidSierraNumber, value |-> ""]
              ELSE IF Len(s1) = SidLenWithCheck
              THEN IF IsDigit(SubSeq(s1, 1, SidLen))
                   THEN [exc |-> NoExc, value |-> SubSeq(s1, 1, SidLen)]
                   ELSE [exc |-> InvalidSierraNumber, value |-> ""]
              ELSE [exc |-> InvalidSierraNumber, value |-> ""]

\* str.split(","): the pieces between the commas, as str values.
RECURSIVE Split(_, _)
Split(v, piece) ==
    IF Len(v) = 0 THEN << PyStr(piece) >>
    ELSE IF Head(v) = "," THEN << PyStr(piece) >> \o Split(Tail(v), "")
    ELSE Split(Tail(v), piece \o Head(v))

\* ",".join(verified_nos)
RECURSIVE Join(_)
Join(strs) ==
    IF Len(strs) = 0 THEN ""
    ELSE IF Len(strs) = 1 THEN strs[1]
    ELSE strs[1] \o "," \o Join(Tail(strs))

\* The loop of _prep_sierra_numbers over elems: the first exception ends it.
RECURSIVE PrepEach(_, _)
PrepEach(elems, verified_nos) ==
    IF Len(elems) = 0 THEN [exc |-> NoExc, value |-> verified_nos]
    ELSE LET r == PrepSierraNumber(Head(elems)) IN
         IF r.exc # NoExc THEN [exc |-> r.exc, value |-> verified_nos]
         ELSE PrepEach(Tail(elems), Append(verified_nos, r.value))

\* SierraSession._prep_sierra_numbers(sids): a list is taken element by
\* element, a str is split at the commas, anything else leaves the list of
\* verified numbers empty.
PrepSierraNumbers(sids) ==
    LET elems == IF sids.type = "list" THEN sids.items
                 ELSE IF sids.type = "str" THEN Split(sids.v, "")
                 ELSE << >>
        r == PrepEach(elems, << >>)
    IN  IF r.exc # NoExc THEN [exc |-> r.exc, value |-> ""]
        ELSE [exc |-> NoExc, value |-> Join(r.value)]

\* ------------------------------------------------------------------ state
VARIABLES
    now,              \* the UTC clock
    constructed,      \* a SierraToken object exists (its constructor returned)
    token_str,        \* SierraToken.token_str
    expires_on,       \* SierraToken.expires_on
    server_response,  \* SierraToken.server_response
    headers,          \* headers[s]: SierraSession s's Authorization header
    pc,               \* "idle", "tok_post" (requests.post pending), "sending"
    ctx,              \* who called _get_token: "init", "fetch", "query"
    op,               \* the operation running or last run
    cur,              \* the session of that operation
    prepared_request, \* the request handed to Query
    log,              \* what the operation did on the transport
    result,           \* what the operation gave its caller
    acq,              \* the last successful exchange: instant and lifetime
    args,             \* the arguments of the operation running or last run
    ev,               \* what the last step was
    base_url,         \* SierraToken.host_url and .api_version, as base_url reads them
    bibs_endpoint,    \* bibs_endpoint[s]: SierraSession s's _bibs_endpoint
    items_endpoint    \* items_endpoint[s]: SierraSession s's _items_endpoint

vars == << now, constructed, token_str, expires_on, server_response, headers,
           pc, ctx, op, cur, prepared_request, log, result, acq, args, ev,
           base_url, bibs_endpoint, items_endpoint >>

token_vars == << constructed, token_str, expires_on, server_response >>

url_vars == << base_url, bibs_endpoint, items_endpoint >>

\* SierraToken.base_url: f"{host_url}/iii/sierra-api/{api_version}".
BaseUrl(host_url, api_version) == [host_url |-> host_url, api_version |-> api_version]
NoUrl == BaseUrl(None, None)

\* f"{base_url}/bibs/" and f"{base_url}/items/".
Endpoint(base, path) == [base |-> base, path |-> path]
NoEndpoint == Endpoint(NoUrl, "")

Self == [token_str |-> token_str, expires_on |-> expires_on,
         server_response |-> server_response]

\* Transport activity of one operation: stale is the pre-flight is_expired(),
\* posts the calls of requests.post, posts_done those that had returned when
\* the request was sent, sends the calls of session.send, sent_auth the
\* Authorization header of the request sent, token_at_send the token string
\* of the SierraToken at that moment; post_answer and send_answer are what the
\* transport answered.
NewLog == [checked |-> FALSE, stale |-> FALSE, posts |-> 0, posts_ok |-> 0,
           posts_done |-> 0, sends |-> 0, sent_auth |-> NoHeader,
           token_at_send |-> None, post_answer |-> NoResponse,
           send_answer |-> NoSendAnswer]

NoArgs == << None, None, None, None >>

SessionExists(s) == headers[s] # NoHeader

Init ==
    /\ now = 0
    /\ constructed = FALSE
    /\ token_str = None
    /\ expires_on = NoneTime
    /\ server_response = NoResponse
    /\ headers = [s \in Sessions |-> NoHeader]
    /\ pc = "idle"
    /\ ctx = "none"
    /\ op = "none"
    /\ cur = NoSession
    /\ prepared_request = NoRequest
    /\ log = NewLog
    /\ result = NoResult
    /\ acq = [set |-> FALSE, at |-> 0, expires_in |-> 0]
    /\ args = NoArgs
    /\ ev = "init"
    /\ base_url = NoUrl
    /\ bibs_endpoint = [s \in Sessions |-> NoEndpoint]
    /\ items_endpoint = [s \in Sessions |-> NoEndpoint]

\* The clock advances, whatever the program is doing.
Tick ==
    /\ now < MaxTime
    /\ now' = now + 1
    /\ ev' = "tick"
    /\ UNCHANGED << token_vars, headers, pc, ctx, op, cur, prepared_request,
                    log, result, acq, args, url_vars >>

\* SierraToken(client_id, client_secret, host_url, api_version) up to its
\* requests.post.
NewToken(client_id, client_secret, host_url, api_version) ==
    /\ pc = "idle"
    /\ ~constructed
    /\ op' = "SierraToken"
    /\ args' = << client_id, client_secret, host_url, api_version >>
    /\ cur' = NoSession
    /\ prepared_request' = NoRequest
    /\ ev' = "op"
    /\ IF MissingArgument(client_id, client_secret, host_url, api_version)
       THEN /\ result' = Raised("BookopsSierraError",
                                Msg("Missing Sierra authentication argument",
                                    "", "", ""))
            /\ log' = NewLog
            /\ UNCHANGED << pc, ctx >>
       ELSE /\ result' = NoResult
            /\ log' = [NewLog EXCEPT !.posts = 1]
            /\ pc' = "tok_post"
            /\ ctx' = "init"
    /\ UNCHANGED << now, token_vars, headers, acq, url_vars >>

\* The ghost record of a successful exchange at the current instant.
Acquired(resp) == [set |-> TRUE, at |-> now, expires_in |-> resp.expires_in]

\* SierraToken.__init__ resumes: requests.post answered resp.  When _get_token
\* raises, the constructor raises and no SierraToken comes to exist.
NewTokenAnswer(resp) ==
    /\ pc = "tok_post"
    /\ ctx = "init"
    /\ LET r == GetToken(Self, resp, now) IN
       IF r.exc = NoExc
       THEN /\ constructed' = TRUE
            /\ token_str' = r.self.token_str
            /\ expires_on' = r.self.expires_on
            /\ server_response' = r.self.server_response
            /\ base_url' = BaseUrl(args[3], args[4])
            /\ result' = Returned(0)
            /\ acq' = Acquired(resp)
            /\ log' = [log EXCEPT !.posts_ok = 1, !.post_answer = resp]
            /\ ev' = "exchange_ok"
       ELSE /\ result' = Raised(r.exc.cls, r.exc.msg)
            /\ log' = [log EXCEPT !.post_answer = resp]
            /\ ev' = "exchange_failed"
            /\ UNCHANGED << token_vars, acq, base_url >>
    /\ pc' = "idle"
    /\ ctx' = "none"
    /\ UNCHANGED << now, headers, op, cur, prepared_request, args,
                    bibs_endpoint, items_endpoint >>

\* token.is_expired() called by the token's holder.
IsExpiredCall ==
    /\ pc = "idle"
    /\ constructed
    /\ op' = "is_expired"
    /\ cur' = NoSession
    /\ prepared_request' = NoRequest
    /\ log' = NewLog
    /\ result' = ReturnedValue(IF IsExpired(expires_on, now) THEN "True" ELSE "False")
    /\ args' = << >>
    /\ ev' = "op"
    /\ UNCHANGED << now, token_vars, headers, pc, ctx, acq, url_vars >>

\* The delay keyword of a SierraSession(...) call: left out, None, or a
\* number of seconds.
Delays == {"omitted", None, "seconds"}

\* (variant: the argument's type is not tested)
NewSession_NoTypeCheck(s, is_token, delay) ==
    /\ pc = "idle"
    /\ ~SessionExists(s)
    /\ is_token => constructed
    /\ op' = "SierraSession"
    /\ args' = << IF is_token THEN "SierraToken" ELSE "other", delay >>
    /\ cur' = s
    /\ prepared_request' = NoRequest
    /\ log' = NewLog
    /\ ev' = "op"
    /\ IF delay # "omitted"
       THEN /\ result' = Raised("TypeError",
                                Msg("unexpected keyword argument", "delay", "", ""))
            /\ UNCHANGED << headers, bibs_endpoint, items_endpoint >>
       ELSE /\ bibs_endpoint' = [bibs_endpoint EXCEPT ![s] = Endpoint(base_url, "bibs/")]
            /\ items_endpoint' = [items_endpoint EXCEPT ![s] = Endpoint(base_url, "items/")]
            /\ headers' = [headers EXCEPT ![s] = UpdateAuthorization(token_str)]
            /\ result' = Returned(0)
    /\ UNCHANGED << now, token_vars, pc, ctx, acq, base_url >>

\* SierraSession(authorization[, delay=...]): __init__ takes authorization
\* and timeout, so a delay keyword fails the call with TypeError before the
\* body runs; then the type check, the endpoints from the token's base_url
\* and the Authorization header from the token.  is_token: the argument is
\* the SierraToken.
NewSession(s, is_token, delay) ==
    /\ pc = "idle"
    /\ ~SessionExists(s)
    /\ is_token => constructed
    /\ op' = "SierraSession"
    /\ args' = << IF is_token THEN "SierraToken" ELSE "other", delay >>
    /\ cur' = s
    /\ prepared_request' = NoRequest
    /\ log' = NewLog
    /\ ev' = "op"
    /\ IF delay # "omitted"
       THEN /\ result' = Raised("TypeError",
                                Msg("unexpected keyword argument", "delay", "", ""))
            /\ UNCHANGED << headers, bibs_endpoint, items_endpoint >>
       ELSE IF is_token
       THEN /\ bibs_endpoint' = [bibs_endpoint EXCEPT ![s] = Endpoint(base_url, "bibs/")]
            /\ items_endpoint' = [items_endpoint EXCEPT ![s] = Endpoint(base_url, "items/")]
            /\ headers' = [headers EXCEPT ![s] = UpdateAuthorization(token_str)]
            /\ result' = Returned(0)
       ELSE /\ result' = Raised("BookopsSierraError",
                                Msg("Invalid authorization", "", "", ""))
            /\ UNCHANGED << headers, bibs_endpoint, items_endpoint >>
    /\ UNCHANGED << now, token_vars, pc, ctx, acq, base_url >>

\* session._fetch_new_token() called by the session's owner, up to the
\* requests.post of _get_token.
FetchNewToken(s) ==
    /\ pc = "idle"
    /\ SessionExists(s)
    /\ op' = "fetch_new_token"
    /\ cur' = s
    /\ prepared_request' = NoRequest
    /\ log' = [NewLog EXCEPT !.posts = 1]
    /\ result' = NoResult
    /\ pc' = "tok_post"
    /\ ctx' = "fetch"
    /\ args' = << >>
    /\ ev' = "op"
    /\ UNCHANGED << now, token_vars, headers, acq, url_vars >>

\* (variant: _update_authorization is not called)
FetchNewTokenAnswer_NoUpdate(resp) ==
    /\ pc = "tok_post"
    /\ ctx = "fetch"
    /\ LET r == GetToken(Self, resp, now) IN
       /\ token_str' = r.self.token_str
       /\ expires_on' = r.self.expires_on
       /\ server_response' = r.self.server_response
       /\ IF r.exc = NoExc
          THEN /\ result' = Returned(0)
               /\ acq' = Acquired(resp)
               /\ log' = [log EXCEPT !.posts_ok = 1, !.post_answer = resp]
               /\ ev' = "exchange_ok"
               /\ UNCHANGED headers
          ELSE /\ result' = Raised(r.exc.cls, r.exc.msg)
               /\ log' = [log EXCEPT !.post_answer = resp]
               /\ ev' = "exchange_failed"
               /\ UNCHANGED << headers, acq >>
    /\ pc' = "idle"
    /\ ctx' = "none"
    /\ UNCHANGED << now, constructed, op, cur, prepared_request, args, url_vars >>

\* _fetch_new_token resumes: _get_token, then _update_authorization; a
\* BookopsSierraError is raised again as it is.
FetchNewTokenAnswer(resp) ==
    /\ pc = "tok_post"
    /\ ctx = "fetch"
    /\ LET r == GetToken(Self, resp, now) IN
       /\ token_str' = r.self.token_str
       /\ expires_on' = r.self.expires_on
       /\ server_response' = r.self.server_response
       /\ IF r.exc = NoExc
          THEN /\ headers' = [headers EXCEPT
                                 ![cur] = UpdateAuthorization(r.self.token_str)]
               /\ result' = Returned(0)
               /\ acq' = Acquired(resp)
               /\ log' = [log EXCEPT !.posts_ok = 1, !.post_answer = resp]
               /\ ev' = "exchange_ok"
          ELSE /\ result' = Raised(r.exc.cls, r.exc.msg)
               /\ log' = [log EXCEPT !.post_answer = resp]
               /\ ev' = "exchange_failed"
               /\ UNCHANGED << headers, acq >>
    /\ pc' = "idle"
    /\ ctx' = "none"
    /\ UNCHANGED << now, constructed, op, cur, prepared_request, args, url_vars >>

\* Ticks of the clock between the pre-flight check and the call of
\* session.send.
Gaps == {0, 1}

\* The log entry of session.send(prepared_request) at the current token tok.
Dispatch(l, req, tok) ==
    [l EXCEPT !.sends = l.sends + 1, !.posts_done = l.posts_ok,
              !.sent_auth = req.Authorization, !.token_at_send = tok]

\* (variant: a stale token is noticed but the request is sent without a refresh)
QueryInit_SkipRefresh(s, req) ==
    /\ cur' = s
    /\ prepared_request' = req
    /\ ev' = "op"
    /\ IF ~req.prepared
       THEN /\ result' = Raised("TypeError",
                                Msg("Invalid type for argument 'prepared_request'",
                                    "", "", ""))
            /\ log' = NewLog
            /\ UNCHANGED << now, pc, ctx >>
       ELSE /\ result' = NoResult
            /\ log' = Dispatch([NewLog EXCEPT !.checked = TRUE,
                                              !.stale = IsExpired(expires_on, now)],
                               req, token_str)
            /\ \E gap \in Gaps : now + gap <= MaxTime /\ now' = now + gap
            /\ pc' = "sending"
            /\ ctx' = "none"
    /\ UNCHANGED << token_vars, headers, acq >>

\* (variant: the pre-flight check comes before the type check)
QueryInit_CheckFirst(s, req) ==
    /\ cur' = s
    /\ prepared_request' = req
    /\ ev' = "op"
    /\ IF IsExpired(expires_on, now)
       THEN /\ result' = NoResult
            /\ log' = [NewLog EXCEPT !.checked = TRUE, !.stale = TRUE, !.posts = 1]
            /\ pc' = "tok_post"
            /\ ctx' = "query"
            /\ UNCHANGED now
       ELSE IF ~req.prepared
       THEN /\ result' = Raised("TypeError",
                                Msg("Invalid type for argument 'prepared_request'",
                                    "", "", ""))
            /\ log' = NewLog
            /\ UNCHANGED << now, pc, ctx >>
       ELSE /\ result' = NoResult
            /\ log' = Dispatch([NewLog EXCEPT !.checked = TRUE], req, token_str)
            /\ \E gap \in Gaps : now + gap <= MaxTime /\ now' = now + gap
            /\ pc' = "sending"
            /\ ctx' = "none"
    /\ UNCHANGED << token_vars, headers, acq >>

\* Query(session, req) up to the first transport call: the type check, the
\* pre-flight is_expired(), then either _fetch_new_token or session.send.
\* Nothing is tested between is_expired() returning false and the call of
\* session.send, and the clock may advance by then.
QueryInit(s, req) ==
    /\ cur' = s
    /\ prepared_request' = req
    /\ ev' = "op"
    /\ IF ~req.prepared
       THEN /\ result' = Raised("TypeError",
                                Msg("Invalid type for argument 'prepared_request'",
                                    "", "", ""))
            /\ log' = NewLog
            /\ UNCHANGED << now, pc, ctx >>
       ELSE IF IsExpired(expires_on, now)
       THEN /\ result' = NoResult
            /\ log' = [NewLog EXCEPT !.checked = TRUE, !.stale = TRUE, !.posts = 1]
            /\ pc' = "tok_post"
            /\ ctx' = "query"
            /\ UNCHANGED now
       ELSE /\ result' = NoResult
            /\ log' = Dispatch([NewLog EXCEPT !.checked = TRUE], req, token_str)
            /\ \E gap \in Gaps : now + gap <= MaxTime /\ now' = now + gap
            /\ pc' = "sending"
            /\ ctx' = "none"
    /\ UNCHANGED << token_vars, headers, acq >>

\* The resource operations that take a request body.
UpdateOps == {"bib_update", "item_update"}

\* The type of the data argument; "omitted" where the operation has none.
DataTypes == {"dict", "str", "bytes", "list"}

\* The arguments the callers pass: sid (items_get: sids) and data.  A record
\* number that is accepted comes with every type of body, one that is not
\* with a dict.
GoodSid(o) ==
    IF o = "items_get" THEN PyList(<< PyStr("b12345678"), PyInt("123456789") >>)
    ELSE PyStr("b12345678")

BadSids(o) ==
    IF o = "items_get" THEN {PyStr("12345678,12345"), PyStr("")}
    ELSE {PyStr("12345"), PyStr("")}

CallArgs(o) ==
    IF o \in UpdateOps
    THEN {<< GoodSid(o), d >> : d \in DataTypes} \cup {<< x, "dict" >> : x \in BadSids(o)}
    ELSE {<< x, "omitted" >> : x \in {GoodSid(o)} \cup BadSids(o)}

WrongDataType ==
    Exc("BookopsSierraError",
        Msg("Given data argument is of a wrong type. Must be a str or dict",
            "", "", ""))

\* (variant: the body's type is not looked at)
AcceptsData_Any(o, data) == TRUE

\* The isinstance tests on data: bib_update takes a dict, a str or bytes,
\* item_update a dict or a str.
AcceptsData(o, data) ==
    CASE o = "bib_update"  -> data \in {"dict", "str", "bytes"}
      [] o = "item_update" -> data \in {"dict", "str"}
      [] OTHER             -> TRUE

\* What a resource operation does before it builds its request: the record
\* number is normalized first, then the body's type is tested.  The result
\* is the exception raised, if any.
PrepArguments(o, sid, data) ==
    LET r == IF o = "items_get" THEN PrepSierraNumbers(sid)
             ELSE PrepSierraNumber(sid)
    IN  IF r.exc # NoExc THEN r.exc
        ELSE IF ~AcceptsData(o, data) THEN WrongDataType
        ELSE NoExc

\* A resource operation of session s: it checks its arguments, prepares the
\* request from the session's headers and hands it to Query.
ResourceCall(s, o, sid, data) ==
    /\ pc = "idle"
    /\ SessionExists(s)
    /\ op' = o
    /\ args' = << sid, data >>
    /\ LET e == PrepArguments(o, sid, data) IN
       IF e # NoExc
       THEN /\ cur' = s
            /\ prepared_request' = NoRequest
            /\ log' = NewLog
            /\ result' = Raised(e.cls, e.msg)
            /\ ev' = "op"
            /\ UNCHANGED << now, token_vars, headers, acq, pc, ctx >>
       ELSE QueryInit(s, PrepareRequest(headers[s]))
    /\ UNCHANGED url_vars

\* Query used directly, with a request its caller prepared on the session or
\* with a requests.Request that is not prepared.
QueryCall(s, is_prepared) ==
    /\ pc = "idle"
    /\ SessionExists(s)
    /\ op' = "Query"
    /\ args' = << >>
    /\ QueryInit(s, IF is_prepared THEN PrepareRequest(headers[s])
                    ELSE UnpreparedRequest)
    /\ UNCHANGED url_vars

\* Query resumes after the pre-flight refresh: _fetch_new_token finishes and,
\* unless it raised, the request is sent.
QueryRefreshAnswer(resp) ==
    /\ pc = "tok_post"
    /\ ctx = "query"
    /\ LET r == GetToken(Self, resp, now) IN
       /\ token_str' = r.self.token_str
       /\ expires_on' = r.self.expires_on
       /\ server_response' = r.self.server_response
       /\ IF r.exc = NoExc
          THEN /\ headers' = [headers EXCEPT
                                 ![cur] = UpdateAuthorization(r.self.token_str)]
               /\ acq' = Acquired(resp)
               /\ log' = Dispatch([log EXCEPT !.posts_ok = 1, !.post_answer = resp],
                                  prepared_request, r.self.token_str)
               /\ pc' = "sending"
               /\ ev' = "exchange_ok"
               /\ UNCHANGED result
          ELSE /\ result' = QueryRefreshFailure(r.exc)
               /\ log' = [log EXCEPT !.post_answer = resp]
               /\ pc' = "idle"
               /\ ev' = "exchange_failed"
               /\ UNCHANGED << headers, acq >>
    /\ ctx' = "none"
    /\ UNCHANGED << now, constructed, op, cur, prepared_request, args, url_vars >>

\* (variant: a send that timed out is tried once more)
QuerySendAnswer_Retry(ans) ==
    /\ pc = "sending"
    /\ IF ans.exc = "Timeout" /\ log.sends < 2
       THEN /\ log' = Dispatch([log EXCEPT !.send_answer = ans],
                               prepared_request, token_str)
            /\ UNCHANGED << result, pc >>
       ELSE /\ result' = QuerySend(ans)
            /\ log' = [log EXCEPT !.send_answer = ans]
            /\ pc' = "idle"
    /\ ev' = "sent"
    /\ UNCHANGED << now, token_vars, headers, ctx, op, cur, prepared_request,
                    acq, args, url_vars >>

\* Query resumes: session.send answered ans.
QuerySendAnswer(ans) ==
    /\ pc = "sending"
    /\ result' = QuerySend(ans)
    /\ log' = [log EXCEPT !.send_answer = ans]
    /\ pc' = "idle"
    /\ ev' = "sent"
    /\ UNCHANGED << now, token_vars, headers, ctx, op, cur, prepared_request,
                    acq, args, url_vars >>

Next ==
    \/ Tick
    \/ \E a, b, c, d \in ArgValues : NewToken(a, b, c, d)
    \/ \E resp \in PostAnswers : NewTokenAnswer(resp)
    \/ IsExpiredCall
    \/ \E s \in Sessions, t \in BOOLEAN, d \in Delays : NewSession(s, t, d)
    \/ \E s \in Sessions : FetchNewToken(s)
    \/ \E resp \in PostAnswers : FetchNewTokenAnswer(resp)
    \/ \E s \in Sessions, o \in ResourceOps :
          \E a \in CallArgs(o) : ResourceCall(s, o, a[1], a[2])
    \/ \E s \in Sessions, p \in BOOLEAN : QueryCall(s, p)
    \/ \E resp \in PostAnswers : QueryRefreshAnswer(resp)
    \/ \E ans \in SendAnswers : QuerySendAnswer(ans)

Spec == Init /\ [][Next]_vars

\* ------------------------------------------- the token's host and version
\* Values the token's holder assigns to host_url and api_version.
AttrValues == {"value", "other"}

\* (variant: the sessions' endpoints follow the token's host_url)
SetHostUrl_Live(v) ==
    /\ pc = "idle"
    /\ constructed
    /\ base_url' = [base_url EXCEPT !.host_url = v]
    /\ bibs_endpoint' = [s \in Sessions |->
                            IF SessionExists(s) THEN Endpoint(base_url', "bibs/")
                            ELSE bibs_endpoint[s]]
    /\ items_endpoint' = [s \in Sessions |->
                            IF SessionExists(s) THEN Endpoint(base_url', "items/")
                            ELSE items_endpoint[s]]
    /\ op' = "set_host_url"
    /\ args' = << v >>
    /\ cur' = NoSession
    /\ prepared_request' = NoRequest
    /\ log' = NewLog
    /\ result' = NoResult
    /\ ev' = "op"
    /\ UNCHANGED << now, token_vars, headers, pc, ctx, acq >>

\* token.host_url = v, assigned by the token's holder.
SetHostUrl(v) ==
    /\ pc = "idle"
    /\ constructed
    /\ base_url' = [base_url EXCEPT !.host_url = v]
    /\ op' = "set_host_url"
    /\ args' = << v >>
    /\ cur' = NoSession
    /\ prepared_request' = NoRequest
    /\ log' = NewLog
    /\ result' = NoResult
    /\ ev' = "op"
    /\ UNCHANGED << now, token_vars, headers, pc, ctx, acq, bibs_endpoint,
                    items_endpoint >>

\* token.api_version = v, assigned by the token's holder.
SetApiVersion(v) ==
    /\ pc = "idle"
    /\ constructed
    /\ base_url' = [base_url EXCEPT !.api_version = v]
    /\ op' = "set_api_version"
    /\ args' = << v >>
    /\ cur' = NoSession
    /\ prepared_request' = NoRequest
    /\ log' = NewLog
    /\ result' = NoResult
    /\ ev' = "op"
    /\ UNCHANGED << now, token_vars, headers, pc, ctx, acq, bibs_endpoint,
                    items_endpoint >>

\* The token and its sessions while the holder changes the token's host and
\* version: construction, refresh and the two assignments.
NextEndpoints ==
    \/ \E a, b, c, d \in ArgValues : NewToken(a, b, c, d)
    \/ \E resp \in PostAnswers : NewTokenAnswer(resp)
    \/ \E s \in Sessions, t \in BOOLEAN, d \in Delays : NewSession(s, t, d)
    \/ \E s \in Sessions : FetchNewToken(s)
    \/ \E resp \in PostAnswers : FetchNewTokenAnswer(resp)
    \/ \E v \in AttrValues : SetHostUrl(v)
    \/ \E v \in AttrValues : SetApiVersion(v)

SpecEndpoints == Init /\ [][NextEndpoints]_vars

\* --------------------------------------- the normalization helpers alone
MaxDigits == 10         \* record numbers of 0..MaxDigits digits are tried
MaxListLen == 2         \* lists of 0..MaxListLen record numbers are tried

\* The first n characters of 1234567890 1234567890 ...
RECURSIVE DigitRun(_)
DigitRun(n) ==
    IF n = 0 THEN ""
    ELSE DigitRun(n - 1) \o SubSeq("1234567890", ((n - 1) % 10) + 1, ((n - 1) % 10) + 1)

\* Record numbers as text: padding, a prefix, digits with or without a
\* character that is no digit, padding.
SidBodies ==
    {DigitRun(n) : n \in 0..MaxDigits}
    \cup {"1234x678", "12345678x", "1234x6789", "x23456789", "1234 5678"}

SidTexts ==
    {lpad \o pre \o body \o rpad :
        lpad \in {"", " "}, pre \in {"", "b", "B", "i", "I", "a", "bi"},
        body \in SidBodies, rpad \in {"", " "}}

\* What is passed as sid: a str, an int, or a value of another type.
SidInputs ==
    {PyStr(t) : t \in SidTexts}
    \cup {PyInt(DigitRun(n)) : n \in 1..MaxDigits}
    \cup {PyInt("-1234567"), PyInt("-12345678"), PyNone, PyList(<< >>)}

\* What is passed as sids: lists of record numbers, the same separated by
\* commas in a str, one record number, None.
SidElements ==
    {PyStr("b12345678"), PyInt("123456789"), PyStr(" i2345678x"),
     PyStr("12345"), PyStr("")}

SidLists == UNION {[1..n -> SidElements] : n \in 0..MaxListLen}

SidsInputs ==
    {PyList(l) : l \in SidLists}
    \cup {PyStr(Join([k \in 1..Len(l) |-> l[k].v])) :
             l \in {x \in SidLists : Len(x) > 0}}
    \cup {PyInt("12345678"), PyNone}

InitPrep ==
    /\ now = 0
    /\ constructed = FALSE
    /\ token_str = None
    /\ expires_on = NoneTime
    /\ server_response = NoResponse
    /\ headers = [s \in Sessions |-> NoHeader]
    /\ pc = "idle"
    /\ ctx = "none"
    /\ op = "none"
    /\ cur = NoSession
    /\ prepared_request = NoRequest
    /\ log = NewLog
    /\ result = NoResult
    /\ acq = [set |-> FALSE, at |-> 0, expires_in |-> 0]
    /\ args \in {<< x >> : x \in SidInputs \cup SidsInputs}
    /\ ev = "init"
    /\ base_url = NoUrl
    /\ bibs_endpoint = [s \in Sessions |-> NoEndpoint]
    /\ items_endpoint = [s \in Sessions |-> NoEndpoint]

\* What a helper gives its caller.
PrepResult(r) ==
    IF r.exc = NoExc THEN ReturnedValue(r.value) ELSE Raised(r.exc.cls, r.exc.msg)

\* _prep_sierra_number(sid) on the argument drawn.
PrepSierraNumberCall ==
    /\ op = "none"
    /\ op' = "_prep_sierra_number"
    /\ result' = PrepResult(PrepSierraNumber(args[1]))
    /\ ev' = "op"
    /\ UNCHANGED << now, token_vars, headers, pc, ctx, cur, prepared_request,
                    log, acq, args, url_vars >>

\* _prep_sierra_numbers(sids) on the argument drawn.
PrepSierraNumbersCall ==
    /\ op = "none"
    /\ op' = "_prep_sierra_numbers"
    /\ result' = PrepResult(PrepSierraNumbers(args[1]))
    /\ ev' = "op"
    /\ UNCHANGED << now, token_vars, headers, pc, ctx, cur, prepared_request,
                    log, acq, args, url_vars >>

NextPrep ==
    \/ PrepSierraNumberCall
    \/ PrepSierraNumbersCall

SpecPrep == InitPrep /\ [][NextPrep]_vars

\* ------------------------------------------------ the placeholder methods
\* The methods of SierraSession whose body is the single statement pass.
UnimplementedOps ==
    {"bib_create", "bib_delete", "bibs_get", "bibs_get_marc",
     "bibs_get_metadata", "bibs_delete_marc_files", "bibs_query",
     "bibs_search", "item_delete", "item_create", "item_get_checkouts",
     "items_get_checkouts", "items_checkin", "items_query"}

\* session.o() for a placeholder method o: the body is pass, so the call
\* returns None and touches neither the token nor the transport.
UnimplementedCall(s, o) ==
    /\ pc = "idle"
    /\ SessionExists(s)
    /\ op' = o
    /\ cur' = s
    /\ prepared_request' = NoRequest
    /\ log' = NewLog
    /\ result' = ReturnedValue(None)
    /\ args' = << >>
    /\ ev' = "op"
    /\ UNCHANGED << now, token_vars, headers, pc, ctx, acq, url_vars >>

\* A token, its sessions and the placeholder methods called on them.
NextUnimplemented ==
    \/ Tick
    \/ \E a, b, c, d \in ArgValues : NewToken(a, b, c, d)
    \/ \E resp \in PostAnswers : NewTokenAnswer(resp)
    \/ \E s \in Sessions, t \in BOOLEAN, d \in Delays : NewSession(s, t, d)
    \/ \E s \in Sessions, o \in UnimplementedOps : UnimplementedCall(s, o)

SpecUnimplemented == Init /\ [][NextUnimplemented]_vars

\* ------------------------------------------ one token held by two sessions
\* Two SierraSession objects constructed with the same SierraToken object.
SharedSessions == {"s1", "s2"}

\* The token endpoint at work: a token with its lifetime, or no answer.
SharedPostAnswers ==
    PostRaises
    \cup {PostAnswer("none", 200, "dict", TRUE, t, "number", e) :
             t \in Tokens, e \in 0..MaxExpiresIn}

\* The server answers a request with the record, or turns it down.
SharedSendAnswers ==
    {[exc |-> "none", status_code |-> c, content |-> [utf8 |-> TRUE, text |-> "spam"]] :
        c \in {200, 404}}

InitShared ==
    /\ now = 0
    /\ constructed = FALSE
    /\ token_str = None
    /\ expires_on = NoneTime
    /\ server_response = NoResponse
    /\ headers = [s \in SharedSessions |-> NoHeader]
    /\ pc = "idle"
    /\ ctx = "none"
    /\ op = "none"
    /\ cur = NoSession
    /\ prepared_request = NoRequest
    /\ log = NewLog
    /\ result = NoResult
    /\ acq = [set |-> FALSE, at |-> 0, expires_in |-> 0]
    /\ args = NoArgs
    /\ ev = "init"
    /\ base_url = NoUrl
    /\ bibs_endpoint = [s \in SharedSessions |-> NoEndpoint]
    /\ items_endpoint = [s \in SharedSessions |-> NoEndpoint]

\* Each session refreshes the token and gets a bib; the calls of the two
\* sessions follow one another in every order.
NextShared ==
    \/ Tick
    \/ NewToken("value", "value", "value", "value")
    \/ \E resp \in SharedPostAnswers : NewTokenAnswer(resp)
    \/ \E s \in SharedSessions : NewSession(s, TRUE, "omitted")
    \/ \E s \in SharedSessions : FetchNewToken(s)
    \/ \E resp \in SharedPostAnswers : FetchNewTokenAnswer(resp)
    \/ \E s \in SharedSessions :
          ResourceCall(s, "bib_get", GoodSid("bib_get"), "omitted")
    \/ \E resp \in SharedPostAnswers : QueryRefreshAnswer(resp)
    \/ \E ans \in SharedSendAnswers : QuerySendAnswer(ans)

SpecShared == InitShared /\ [][NextShared]_vars

\* --------------------------------------------- the margin of one second
\* The instant the server issues the token.  The token is asked for at this
\* instant and the server issues it at once; the answer reaches
\* _calculate_expiration_time at acq.at, so acq.at - IssuedAt is the delay
\* between the issuing and the computing of expires_on.
IssuedAt == 0

\* SierraToken(...) called at the instant IssuedAt.
NewTokenAtIssue(client_id, client_secret, host_url, api_version) ==
    /\ now = IssuedAt
    /\ NewToken(client_id, client_secret, host_url, api_version)

\* A token is constructed and its holder asks is_expired() as time passes.
NextMargin ==
    \/ Tick
    \/ \E a, b, c, d \in ArgValues : NewTokenAtIssue(a, b, c, d)
    \/ \E resp \in PostAnswers : NewTokenAnswer(resp)
    \/ IsExpiredCall

SpecMargin == Init /\ [][NextMargin]_vars

\* ================================================================ claims
QueryOps == ResourceOps \cup {"Query"}

\* A Query whose pre-flight check ran, and one that has ended.
Checked == op \in QueryOps /\ log.checked
SendReturned == Checked /\ pc = "idle" /\ log.sends = 1

\* A stale token at the pre-flight check means exactly one exchange, which
\* has completed when the request is sent; a fresh one means none.
ExchangeBeforeSend ==
    Checked =>
        /\ log.stale => (log.posts = 1 /\ (log.sends > 0 => log.posts_done = 1))
        /\ ~log.stale => log.posts = 0

\* The state in which a call has just ended that refreshed the token and
\* whose send was answered with a success status.
AfterRefreshingCall ==
    /\ SendReturned /\ log.posts_ok = 1 /\ ev = "sent"
    /\ log.send_answer.exc = "none"
    /\ 200 <= log.send_answer.status_code /\ log.send_answer.status_code < 300

\* C1 as stated: a stale token at the pre-flight check means exactly one
\* exchange completed before the send, a fresh token none; after a call that
\* refreshed, is_expired() is false and the call has returned the transport's
\* response with its declared status code.
C1_AsStated ==
    /\ ExchangeBeforeSend
    /\ AfterRefreshingCall =>
          /\ ~(expires_on < now)
          /\ result = Returned(log.send_answer.status_code)

\* C1 amended: a stale token at the pre-flight check means exactly one
\* exchange completed before the send, a fresh token none; after a call that
\* refreshed, the call has returned the transport's response with its
\* declared status code, and is_expired() is false as long as the clock has
\* not passed the acquisition instant plus expires_in - 1.
C1_RefreshThenSend ==
    /\ ExchangeBeforeSend
    /\ AfterRefreshingCall =>
          /\ now <= acq.at + acq.expires_in - 1 => ~(expires_on < now)
          /\ result = Returned(log.send_answer.status_code)

C1_Witness ==
    /\ AfterRefreshingCall
    /\ op \in ResourceOps
    /\ log.stale /\ log.posts = 1 /\ log.posts_done = 1
    /\ ~(expires_on < now)
    /\ result = Returned(200)

\* C2: every request a resource operation dispatches carries Authorization:
\* Bearer <t>, t being the SierraToken's token string at the dispatch, also
\* when the pre-flight check refreshed the token.
C2_BearerAtDispatch ==
    (op \in ResourceOps /\ log.sends > 0) =>
        log.sent_auth = Bearer(log.token_at_send)

\* C3: with all four arguments non-empty the constructor succeeds exactly when
\* the token endpoint answers 200 with access_token and expires_in present
\* and well-formed, and fails with BookopsSierraError otherwise.
C3_ConstructIff ==
    (op = "SierraToken" /\ pc = "idle" /\ log.posts = 1) =>
        LET a == log.post_answer IN
        /\ result.kind = "return" <=>
              /\ a.exc = "none" /\ a.status_code = 200 /\ a.json = "dict"
              /\ a.has_access_token /\ a.access_token \in Tokens
              /\ a.expires_in_kind = "number"
        /\ result.kind # "return" =>
              (result.kind = "raise" /\ result.exc = "BookopsSierraError")

\* C4: after every successful exchange the stored expiry instant is the
\* acquisition instant plus the declared expires_in minus one second.
C4_ExpiryExact ==
    acq.set => expires_on = acq.at + acq.expires_in - 1

C4_Witness ==
    /\ ev = "exchange_ok"
    /\ op \in QueryOps
    /\ acq.at = now /\ now > 0
    /\ acq.expires_in = MaxExpiresIn
    /\ expires_on = now + MaxExpiresIn - 1

\* The state right after is_expired() returned.
IsExpiredObserved == op = "is_expired" /\ ev = "op"

\* C5 as stated: is_expired() is false immediately after any successful
\* exchange, whatever the declared lifetime; it is true at every instant
\* later than the stored expiry instant and stays true until the next
\* successful exchange.
C5_AsStated ==
    /\ [](IsExpiredObserved /\ acq.set /\ now = acq.at => result.value = "False")
    /\ [](IsExpiredObserved /\ now > expires_on => result.value = "True")
    /\ [][(expires_on < now /\ ev' # "exchange_ok") => expires_on' < now']_vars

\* C5 amended: is_expired() is false exactly while the clock has not passed
\* the instant of the last successful exchange plus its expires_in - 1, so
\* at the instant of the exchange it is false when the declared lifetime is
\* at least one second; it is true at every instant later than the stored
\* expiry instant and stays true until the next successful exchange.
C5_FreshUntilExpiry ==
    /\ [](IsExpiredObserved =>
            (result.value = "False" <=> now <= acq.at + acq.expires_in - 1))
    /\ [](IsExpiredObserved /\ now = acq.at /\ acq.expires_in >= 1
            => result.value = "False")
    /\ [](IsExpiredObserved /\ now > expires_on => result.value = "True")
    /\ [][(expires_on < now /\ ev' # "exchange_ok") => expires_on' < now']_vars

C5_Witness ==
    /\ IsExpiredObserved
    /\ now = acq.at /\ acq.expires_in >= 1
    /\ result.value = "False"

\* C6: constructing a SierraToken with client id, client secret, host URL or
\* API version empty or absent raises the configuration error and calls the
\* token endpoint not once.
C6_MissingArgument ==
    (op = "SierraToken" /\ \E i \in 1..4 : args[i] \in {"", None}) =>
        /\ pc = "idle"
        /\ result = Raised("BookopsSierraError",
                           Msg("Missing Sierra authentication argument", "", "", ""))
        /\ log.posts = 0
        /\ ~constructed

C6_Witness ==
    /\ op = "SierraToken"
    /\ args = << "value", "value", "value", "" >>
    /\ result.kind = "raise"
    /\ log.posts = 0

\* The messages of the BookopsSierraError _get_token raises.
ExchangeErrorTexts ==
    {"Trouble connecting", "Unexpected error occured",
     "Missing access_token parameter", "Missing expires_in parameter",
     "Invalid request. Oauth server returned error"}

\* A Query whose pre-flight refresh failed.
RefreshFailed == Checked /\ log.stale /\ pc = "idle" /\ log.posts_ok = 0

\* C7: when the pre-flight refresh fails, the caller gets the exchange's
\* BookopsSierraError, not one classified as a connection or unexpected
\* request error, and the prepared request is not sent.
C7_RefreshFailurePropagates ==
    RefreshFailed =>
        /\ result.kind = "raise"
        /\ result.exc = "BookopsSierraError"
        /\ result.msg.text \in ExchangeErrorTexts
        /\ log.sends = 0

C7_Witness ==
    /\ RefreshFailed
    /\ op \in ResourceOps
    /\ log.post_answer.exc = "Timeout"
    /\ result = Raised("BookopsSierraError",
                       Msg("Trouble connecting", "Timeout", "", ""))
    /\ log.sends = 0

\* C8: Query raises TypeError for a request that is not prepared, and then
\* neither exchanges a token nor sends, also when the token is stale.
C8_NotPrepared ==
    (op = "Query" /\ ~prepared_request.prepared) =>
        /\ pc = "idle"
        /\ result = Raised("TypeError",
                           Msg("Invalid type for argument 'prepared_request'",
                               "", "", ""))
        /\ log.posts = 0
        /\ log.sends = 0

C8_Witness ==
    /\ op = "Query" /\ ~prepared_request.prepared
    /\ ev = "op"
    /\ expires_on < now
    /\ result.exc = "TypeError"

\* C9: a resource call returns the response exactly when the status is in
\* the success range 2xx; every other status raises BookopsSierraError with
\* a message holding the HTTP error phrase and the body decoded as UTF-8.
C9_StatusDecides ==
    (SendReturned /\ log.send_answer.exc = "none") =>
        LET st == log.send_answer.status_code
            success == 200 <= st /\ st < 300
        IN  /\ result.kind = "return" <=> success
            /\ ~success =>
                  /\ result.kind = "raise"
                  /\ result.exc = "BookopsSierraError"
                  /\ result.msg.phrase # ""
                  /\ result.msg.body = log.send_answer.content.text

TimeoutOrConnection == {"Timeout", "ConnectTimeout", "ReadTimeout", "ConnectionError"}

\* C10: a timeout or connection failure of the send is reported as
\* 'Connection Error' naming the exception's class, and 'Unexpected request
\* error' reports only failures that are neither an HTTP error nor a timeout
\* or connection failure.
C10_SpecificBeforeGeneric ==
    SendReturned =>
        LET x == log.send_answer.exc IN
        /\ x \in TimeoutOrConnection =>
              result = Raised("BookopsSierraError", Msg("Connection Error", x, "", ""))
        /\ result.msg.text = "Unexpected request error" =>
              /\ x \notin TimeoutOrConnection \cup {"none", "HTTPError"}
              /\ result.msg.names = x

C10_Witness ==
    /\ SendReturned
    /\ log.send_answer.exc = "ConnectTimeout"
    /\ result.msg.text = "Connection Error"
    /\ result.msg.names = "ConnectTimeout"

\* An exchange that has ended in failure, whoever started it.
ExchangeFailed == pc = "idle" /\ log.posts = 1 /\ ev = "exchange_failed"

\* C11: each cause of a failed exchange keeps its own message: a body without
\* access_token 'Missing access_token parameter', one without a numeric
\* expires_in 'Missing expires_in parameter', a status other than 200
\* 'Invalid request' with the response body, a timeout or connection failure
\* 'Trouble connecting'; 'Unexpected error' reports only the other failures.
C11_OwnClassification ==
    ExchangeFailed =>
        LET a == log.post_answer
            refused == a.exc = "none" /\ a.status_code # 200
            object == a.exc = "none" /\ a.status_code = 200 /\ a.json = "dict"
            no_token == object /\ ~a.has_access_token
            no_expiry == object /\ a.has_access_token /\ a.expires_in_kind # "number"
        IN  /\ result.kind = "raise" /\ result.exc = "BookopsSierraError"
            /\ a.exc \in TimeoutOrConnection =>
                  result.msg = Msg("Trouble connecting", a.exc, "", "")
            /\ refused =>
                  result.msg = Msg("Invalid request. Oauth server returned error",
                                   "", "", "body")
            /\ no_token => result.msg.text = "Missing access_token parameter"
            /\ no_expiry => result.msg.text = "Missing expires_in parameter"
            /\ result.msg.text = "Unexpected error occured" =>
                  /\ a.exc \notin TimeoutOrConnection
                  /\ ~refused /\ ~no_token /\ ~no_expiry

\* C12: one call of a resource operation sends its request at most once,
\* attempts at most one token exchange, is not retried (an answer of the
\* token endpoint either ends the call or leads to the send, an answer to
\* the send ends the call), and ends with exactly one outcome: a response
\* returned, which was sent for, or one error raised.
C12_OneOutcome ==
    /\ [](op \in QueryOps =>
            /\ log.sends <= 1 /\ log.posts <= 1
            /\ pc = "idle" => result.kind \in {"return", "raise"}
            /\ pc # "idle" => result.kind = "none"
            /\ result.kind = "return" => (log.sends = 1 /\ result.exc = ""))
    /\ [][(op \in QueryOps /\ ev' # "tick") =>
            /\ pc = "tok_post" => pc' \in {"sending", "idle"}
            /\ pc = "sending" => pc' = "idle"]_vars

C12_Witness ==
    /\ op \in ResourceOps /\ pc = "idle"
    /\ log.stale /\ log.posts = 1 /\ log.sends = 1
    /\ log.send_answer.exc = "Timeout"
    /\ result.kind = "raise"

\* C13: SierraSession(...) takes an optional delay: constructing a session
\* on a SierraToken succeeds whether the delay keyword is left out, None or a
\* number of seconds (which every call would then pause for before it sends).
C13_DelayAccepted ==
    (op = "SierraSession" /\ args[1] = "SierraToken") =>
        /\ result.kind = "return"
        /\ SessionExists(cur)

\* The state right after _fetch_new_token ended, called by the session's owner.
FetchSucceeded == op = "fetch_new_token" /\ ev = "exchange_ok"

\* A failed _fetch_new_token raises what _get_token raised and leaves the
\* session's Authorization header as it was.
FetchFailureLeavesHeader ==
    (op = "fetch_new_token" /\ ev' = "exchange_failed") =>
        /\ headers' = headers
        /\ LET e == GetToken(Self, log'.post_answer, now).exc IN
           result' = Raised(e.cls, e.msg)
        /\ result'.exc = "BookopsSierraError"
        /\ result'.msg.text \in ExchangeErrorTexts

\* C14 as stated: after a successful _fetch_new_token the session's
\* Authorization header is 'Bearer ' + the new token string and is_expired()
\* is false; a failed one raises the exchange's error unchanged and leaves
\* the header as it was.
C14_AsStated ==
    /\ [](FetchSucceeded =>
            /\ headers[cur] = Bearer(log.post_answer.access_token)
            /\ token_str = log.post_answer.access_token
            /\ ~(expires_on < now))
    /\ [][FetchFailureLeavesHeader]_vars

\* C14 amended: after a successful _fetch_new_token the session's
\* Authorization header is 'Bearer ' + the new token string, and is_expired()
\* is false as long as the clock has not passed the acquisition instant plus
\* expires_in - 1; a failed one raises the exchange's error unchanged and
\* leaves the header as it was.
C14_FetchNewToken ==
    /\ [](FetchSucceeded =>
            /\ headers[cur] = Bearer(log.post_answer.access_token)
            /\ token_str = log.post_answer.access_token
            /\ now <= acq.at + acq.expires_in - 1 => ~(expires_on < now))
    /\ [][FetchFailureLeavesHeader]_vars

C14_Witness ==
    /\ FetchSucceeded
    /\ token_str \in Tokens
    /\ headers[cur] = Bearer(token_str)
    /\ acq.at = now /\ acq.expires_in >= 1
    /\ ~(expires_on < now)

\* What the record number normalization is said to do: the text of an int or
\* a str without surrounding whitespace and without one leading record-type
\* letter; well formed when that is 8 digits, or 9 characters of which the
\* first 8 are digits.
RecordTypeLetters == {"b", "B", "i", "I"}

Remaining(x) ==
    LET t == IF x.type = "int" THEN x.v ELSE Strip(x.v) IN
    IF Len(t) > 0 /\ Head(t) \in RecordTypeLetters THEN Tail(t) ELSE t

WellFormed(x) ==
    /\ x.type \in {"int", "str"}
    /\ LET r == Remaining(x) IN
       \/ Len(r) = 8 /\ IsDigit(r)
       \/ Len(r) = 9 /\ IsDigit(SubSeq(r, 1, 8))

Normalized(x) == SubSeq(Remaining(x), 1, 8)

InvalidNumberRaised ==
    result = Raised("BookopsSierraError",
                    Msg("Invalid Sierra number passed", "", "", ""))

\* C15: _prep_sierra_number takes an int or a str, strips at most one leading
\* record-type letter of either case, returns the 8 digits that remain, or
\* the first 8 of 9 remaining characters when those 8 are digits, and raises
\* BookopsSierraError 'Invalid Sierra number passed.' for every other input,
\* the empty string included.
C15_Normalization ==
    op = "_prep_sierra_number" =>
        IF WellFormed(args[1])
        THEN result = ReturnedValue(Normalized(args[1]))
        ELSE InvalidNumberRaised

\* C16: whenever _prep_sierra_number(x) returns, _prep_sierra_number of the
\* value returned returns that same value.
C16_Idempotent ==
    (op = "_prep_sierra_number" /\ result.kind = "return") =>
        PrepSierraNumber(PyStr(result.value))
            = [exc |-> NoExc, value |-> result.value]

C16_Witness ==
    /\ op = "_prep_sierra_number"
    /\ args[1] = PyStr(" B123456789 ")
    /\ result = ReturnedValue("12345678")

\* The record numbers a sids argument is said to hold: the elements of a
\* list, the pieces of a str between its commas, one int; none for None, an
\* empty list and an empty str.
SaidElements(x) ==
    CASE x.type = "list" -> x.items
      [] x.type = "str"  -> IF x.v = "" THEN << >> ELSE Split(x.v, "")
      [] x.type = "int"  -> << x >>
      [] OTHER           -> << >>

\* C17: _prep_sierra_numbers normalizes each record number of one
\* identifier, of a comma separated str or of a list and returns the results
\* joined by commas in the order given; None, an empty list and an empty str
\* give the empty result without raising; an element that is not well formed
\* raises BookopsSierraError 'Invalid Sierra number passed.'.
C17_MultiNormalization ==
    op = "_prep_sierra_numbers" =>
        LET e == SaidElements(args[1]) IN
        IF \A k \in 1..Len(e) : WellFormed(e[k])
        THEN result = ReturnedValue(Join([k \in 1..Len(e) |-> Normalized(e[k])]))
        ELSE InvalidNumberRaised

\* An update operation called with a record number that is accepted; it
\* rejected the body when it raised the wrong-type error.
UpdateCalled == op \in UpdateOps /\ args[1] = GoodSid(op)

BodyRejected ==
    result = Raised("BookopsSierraError",
                    Msg("Given data argument is of a wrong type. Must be a str or dict",
                        "", "", ""))

\* On the rejecting path the call has ended without a pre-flight check, an
\* exchange or a send; on the accepting path the request went to Query.
RejectedBeforeTransport ==
    /\ BodyRejected =>
          /\ pc = "idle" /\ ~log.checked /\ log.posts = 0 /\ log.sends = 0
          /\ ~prepared_request.prepared
    /\ ~BodyRejected => (log.checked /\ prepared_request.prepared)

\* C18 as stated: bib_update and item_update take a dict or a str as body
\* and reject every other type with 'wrong type ... Must be a str or dict';
\* on the rejecting path there is no exchange and no send, whatever the
\* token's freshness.
C18_AsStated ==
    UpdateCalled =>
        /\ BodyRejected <=> args[2] \notin {"dict", "str"}
        /\ RejectedBeforeTransport

\* C18 amended: bib_update takes a dict, a str or bytes as body, item_update
\* a dict or a str; each rejects every other type with 'wrong type ... Must
\* be a str or dict'; on the rejecting path there is no exchange and no
\* send, whatever the token's freshness.
C18_BodyType ==
    UpdateCalled =>
        /\ BodyRejected <=>
              \/ args[2] \notin {"dict", "str", "bytes"}
              \/ op = "item_update" /\ args[2] = "bytes"
        /\ RejectedBeforeTransport

C18_Witness ==
    /\ UpdateCalled
    /\ args[2] = "list"
    /\ expires_on < now
    /\ BodyRejected
    /\ log.posts = 0 /\ log.sends = 0

\* C19: a resource operation given a malformed record number raises
\* BookopsSierraError 'Invalid Sierra number passed.' before a request is
\* built: no request is prepared, no token is exchanged even if the token is
\* stale, and nothing is sent.
C19_InvalidSidFirst ==
    (op \in ResourceOps /\ args[1] \in BadSids(op)) =>
        /\ InvalidNumberRaised
        /\ pc = "idle"
        /\ ~prepared_request.prepared
        /\ ~log.checked /\ log.posts = 0 /\ log.sends = 0

\* C20: a session's _bibs_endpoint and _items_endpoint are the token's
\* base_url as it was when the session was constructed; assigning the
\* token's host_url or api_version later, and any refresh, leaves them as
\* they are.
C20_EndpointSnapshot ==
    /\ []((op = "SierraSession" /\ result.kind = "return") =>
            /\ bibs_endpoint[cur] = Endpoint(base_url, "bibs/")
            /\ items_endpoint[cur] = Endpoint(base_url, "items/"))
    /\ [][\A s \in Sessions : SessionExists(s) =>
            /\ bibs_endpoint'[s] = bibs_endpoint[s]
            /\ items_endpoint'[s] = items_endpoint[s]]_vars

C20_Witness ==
    /\ FetchSucceeded
    /\ base_url = BaseUrl("other", "other")
    /\ bibs_endpoint[cur] = Endpoint(BaseUrl("value", "value"), "bibs/")
    /\ items_endpoint[cur] = Endpoint(BaseUrl("value", "value"), "items/")

\* C22: SierraSession(authorization) with an argument that is no SierraToken
\* raises BookopsSierraError 'Invalid authorization. Argument must be an
\* instance of `SierraToken` object.', calls neither the token endpoint nor
\* the API, and no session comes to exist.
C22_InvalidAuthorization ==
    (op = "SierraSession" /\ args = << "other", "omitted" >>) =>
        /\ pc = "idle"
        /\ result = Raised("BookopsSierraError",
                           Msg("Invalid authorization", "", "", ""))
        /\ log.posts = 0 /\ log.sends = 0
        /\ ~SessionExists(cur)

C22_Witness ==
    /\ op = "SierraSession" /\ args = << "other", "omitted" >>
    /\ ev = "op"
    /\ constructed
    /\ result.exc = "BookopsSierraError"
    /\ headers[cur] = NoHeader

\* C25: a failed exchange on an existing SierraToken leaves token_str,
\* expires_on and server_response as they were, whatever made it fail.
C25_FailureLeavesToken ==
    [][(constructed /\ ev' = "exchange_failed") =>
          /\ token_str' = token_str
          /\ expires_on' = expires_on
          /\ server_response' = server_response]_vars

\* C26: in every state each session's Authorization header is 'Bearer ' +
\* the token_str its SierraToken holds at that moment.
C26_HeaderIsToken ==
    \A s \in DOMAIN headers : SessionExists(s) => headers[s] = Bearer(token_str)

\* C28: a construction that failed left no SierraToken, and a SierraToken
\* whose construction returned has token_str and expires_on set (not None)
\* in every state, whatever refreshes succeeded or failed since.
C28_NeverUnauthenticated ==
    /\ constructed => (token_str # None /\ expires_on # NoneTime)
    /\ ~constructed =>
          (token_str = None /\ expires_on = NoneTime /\ server_response = NoResponse)

\* The step in which Query calls session.send: straight after the pre-flight
\* check, or when the refresh it started has ended well.
SendAfterCheck == op' \in QueryOps /\ pc = "idle" /\ pc' = "sending"
SendAfterRefresh == op \in QueryOps /\ pc = "tok_post" /\ pc' = "sending"

C23_NotImplemented ==
    op \in UnimplementedOps =>
        /\ result.kind = "raise"
        /\ result.exc = "NotImplementedError"
        /\ log.posts = 0 /\ log.sends = 0

\* C21: of two sessions holding one token, a request that a session sends
\* after the other has refreshed the token is authorized with the new token
\* string: a request sent without a refresh in its own call carries the
\* token string the shared token holds at that moment.
C21_SharedRefresh ==
    (op \in ResourceOps /\ log.sends > 0 /\ ~log.stale) =>
        log.sent_auth = Bearer(log.token_at_send)

\* C24 as stated: whenever is_expired() is false, less than expires_in
\* seconds have passed since the server issued the token, whatever the delay
\* between the issuing and the computing of the expiry instant.
C24_AsStated ==
    (constructed /\ ~IsExpired(expires_on, now)) =>
        now - IssuedAt < acq.expires_in

\* C24 amended: whenever is_expired() is false, less than expires_in seconds
\* have passed since the expiry instant was computed, hence less than
\* expires_in seconds since the server issued the token when the delay
\* between the issuing and the computing is under one second.
C24_MarginSinceComputed ==
    (constructed /\ ~IsExpired(expires_on, now)) =>
        /\ now - acq.at < acq.expires_in
        /\ acq.at - IssuedAt < 1 => now - IssuedAt < acq.expires_in

C24_Witness ==
    /\ constructed /\ IsExpiredObserved /\ result.value = "False"
    /\ acq.at - IssuedAt >= 1
    /\ now - acq.at < acq.expires_in
    /\ now - IssuedAt >= acq.expires_in

====
